---- MODULE Spec2Model ----
(***************************************************************************)
(* Product aggregate of the catalog backend: the product document with its *)
(* derived fields (finalPrice, averageRating), its embedded images and     *)
(* ratings, and the controller handlers that mutate it while talking to    *)
(* the Cloudinary asset store.                                             *)
(*                                                                         *)
(* Each handler is an async function: every `await` is a step boundary.    *)
(* A handler occupies a slot from the arrival of its request until its     *)
(* response has been collected.  Asset-store calls are tracked one by one, *)
(* because Promise.all settles on the first rejection while the other      *)
(* calls are still in flight.                                              *)
(*                                                                         *)
(* Numbers.  Prices are drawn from multiples of 100 and the discounts the  *)
(* schema accepts from {0, 50}: for these price * (discount / 100) is      *)
(* exact in IEEE doubles, so integer arithmetic computes what the code     *)
(* computes.  averageRating is sum / length; the quotient of two small     *)
(* integers is kept as the fraction in lowest terms, which determines the  *)
(* double the code stores.                                                 *)
(*                                                                         *)
(* Requests.  Bodies carry the fields the routes document for them: the    *)
(* price for POST /, the price and the discount for PUT /:id.  One product *)
(* (one SKU) is modelled; a request for any other id finds no product, as  *)
(* a request does once the product has been deleted.                       *)
(*                                                                         *)
(* Middleware.  Every request carries its Authorization token; the routes  *)
(* run authenticate, and authorizeAdmin where they name it, before the     *)
(* handler.  The users collection is fixed: a customer and an              *)
(* administrator, each holding one token.                                  *)
(*                                                                         *)
(* Persistence.  save() of a loaded document writes the paths the handler  *)
(* modified: pushed array elements are pushed on the stored array, an      *)
(* assigned path is set.  While handlers do not overlap (Spec) this is the *)
(* handler's document; SpecConc lets addProductRating and                  *)
(* uploadProductImages overlap.                                            *)
(***************************************************************************)
EXTENDS Integers, Sequences, FiniteSets

VARIABLES
    db,         \* the persisted product document, or NoProduct
    assets,     \* public_ids currently held by the asset store
    nextAsset,  \* next public_id the asset store hands out
    nextImgId,  \* next _id mongoose gives an images subdocument
    now,        \* Date.now()
    nreq,       \* requests received so far
    pc,         \* per slot: where the handler is
    req,        \* per slot: the request being handled
    doc,        \* per slot: the in-memory mongoose document
    calls,      \* per slot: the asset-store calls the handler has issued
    resp,       \* per slot: the response sent, or NoResp
    snap        \* per slot: the document as findById returned it

vars == <<db, assets, nextAsset, nextImgId, now, nreq, pc, req, doc, calls, resp, snap>>

---------------------------------------------------------------------------
\* Bounds of the model.

MaxRequests == 3   \* requests in one behaviour
MaxAssets == 2     \* uploads the asset store accepts in one behaviour
MaxClock == 1      \* clock ticks in one behaviour
MaxOverlap == 2    \* requests in one behaviour in which handlers overlap

Slots == {1, 2}
Users == {"u1", "u2"}
NoUser == "nobody"
\* The Authorization header: absent, a token jwt.verify refuses, a token of
\* u1 that is no longer among u1's stored tokens, the token of u1, the token
\* of u2.
Tokens == {"none", "forged", "revoked", "t1", "t2"}
NoReview == "none"
Reviews == {NoReview, "bad", "works as described"}
Ratings == {0, 2, 5, 6}
Prices == {-100, 100, 200}
Discounts == {0, 50, 150}
FileCounts == {0, 1}         \* files of POST / and PUT /:id/images
UploadFileCounts == {0, 1, 2}   \* files of POST /:id/images

---------------------------------------------------------------------------
\* Values.

NoProduct == [exists |-> FALSE]
NoReq == [op |-> "none"]
NoDoc == [exists |-> FALSE]
NoResp == [status |-> 0]

RECURSIVE GCD(_, _)
GCD(a, b) == IF b = 0 THEN a ELSE GCD(b, a % b)

\* sum / n as a fraction in lowest terms (n > 0).
Quotient(sum, n) ==
    LET g == GCD(sum, n) IN
    IF sum = 0 THEN [num |-> 0, den |-> 1] ELSE [num |-> sum \div g, den |-> n \div g]

Zero == [num |-> 0, den |-> 1]

RECURSIVE SumRatings(_)
SumRatings(rs) ==
    IF rs = <<>> THEN 0 ELSE Head(rs).rating + SumRatings(Tail(rs))

\* The value updateAverageRating stores.
AverageOf(rs) ==
    IF Len(rs) = 0 THEN Zero ELSE Quotient(SumRatings(rs), Len(rs))

\* The value the pre('save') hook stores.
FinalPriceOf(price, discount) ==
    IF discount > 0 THEN price - ((price * discount) \div 100) ELSE price

PreSave(d) == [d EXCEPT !.finalPrice = FinalPriceOf(d.price, d.discount)]

\* Schema validation run by save() and by runValidators.
ValidPrice(p) == p >= 0
ValidDiscount(x) == x >= 0 /\ x <= 100
ValidScore(r) == r >= 1 /\ r <= 5
ValidRatings(ratings) == \A i \in DOMAIN ratings : ValidScore(ratings[i].rating)

\* new Product(req.body): schema defaults for what the body leaves out.
NewProduct(body) ==
    [exists |-> TRUE,
     price |-> body.price,
     discount |-> IF "discount" \in DOMAIN body THEN body.discount ELSE 0,
     finalPrice |-> -1,
     images |-> <<>>,
     ratings |-> <<>>,
     averageRating |-> Zero]

---------------------------------------------------------------------------
\* Requests and responses.

\* The chain of POST /:id/ratings without the upper limit of isFloat.
ValidRating_NoMax(r) == r >= 1

\* express-validator chains of the routes.
ValidRating(r) == r >= 1 /\ r <= 5
ReviewLength(rv) == IF rv = "bad" THEN 3 ELSE 18
ValidReview(rv) == rv = NoReview \/ ReviewLength(rv) >= 10

\* req.body of PUT /:id: any of the documented price and discount.
Bodies ==
    {[price |-> p] : p \in Prices} \cup
    {[discount |-> x] : x \in Discounts} \cup
    {[price |-> p, discount |-> x] : p \in Prices, x \in Discounts}

\* req.body of POST /: the price, the discount left to its default.
CreateBodies == {[price |-> p] : p \in Prices}

Response(status, error, data) == [status |-> status, error |-> error, data |-> data]

Idle(s) == pc[s] = "idle"
\* Requests take the lowest free slot; slots carry no identity.
FreeSlot(s) == Idle(s) /\ \A t \in Slots : t < s => ~Idle(t)
\* At most one mutation in flight (the single-writer assumption).
Serial == \A t \in Slots : Idle(t)

Accept(s, r) ==
    /\ FreeSlot(s)
    /\ nreq < MaxRequests
    /\ nreq' = nreq + 1
    /\ req' = [req EXCEPT ![s] = r]

Respond(s, r) ==
    /\ pc' = [pc EXCEPT ![s] = "done"]
    /\ resp' = [resp EXCEPT ![s] = r]

Goto(s, p) ==
    /\ pc' = [pc EXCEPT ![s] = p]
    /\ UNCHANGED resp

\* The users collection: u1 is a customer, u2 the administrator.
UserStore ==
    [u \in Users |-> IF u = "u1" THEN [role |-> "user", tokens |-> {"t1"}]
                                  ELSE [role |-> "admin", tokens |-> {"t2"}]]

\* jwt.verify(token, JWT_SECRET): the _id the token was signed for, or a throw.
Verify(token) ==
    IF token = "forged" THEN NoUser
    ELSE IF token = "t2" THEN "u2" ELSE "u1"

\* authenticate: req.user, or NoUser when the middleware answers 401.
authenticate(token) ==
    IF token = "none" THEN NoUser
    ELSE LET id == Verify(token) IN
         IF id = NoUser THEN NoUser
         ELSE IF token \in UserStore[id].tokens THEN id
         ELSE NoUser

\* A middleware that lets every authenticated user through.
authorizeAdmin_Anyone(user) == TRUE

\* authorizeAdmin: next() is called.
authorizeAdmin(user) == UserStore[user].role = "admin"

\* A middleware has answered: the handler is never called, and the request
\* is known by its route and its token only.
Reject(s, r, status, error) ==
    /\ Accept(s, [op |-> r.op, token |-> r.token])
    /\ Respond(s, Response(status, error, NoDoc))
    /\ UNCHANGED <<db, assets, nextAsset, nextImgId, now, doc, calls, snap>>

\* The middleware chain of a route: authenticate, authorizeAdmin where the
\* route names it, then the handler.
Route(s, r, admin, Handler) ==
    IF authenticate(r.token) = NoUser
    THEN Reject(s, r, 401, "Please authenticate")
    ELSE IF admin /\ ~authorizeAdmin(authenticate(r.token))
    THEN Reject(s, r, 403, "Access denied. Admin only.")
    ELSE Accept(s, r) /\ Handler

---------------------------------------------------------------------------
\* Asset-store calls issued by a handler.

UploadCall == [kind |-> "upload", st |-> "pending", id |-> 0]
DestroyCall(publicId) == [kind |-> "destroy", st |-> "pending", id |-> publicId]

\* req.files.map(file => uploadToCloudinary(file.buffer))
UploadCalls(n) == [i \in 1..n |-> UploadCall]

Settled(c) == c.st # "pending"
\* A wait that is over as soon as one of the calls has settled.
AnySettled(cs, kind) == \E i \in DOMAIN cs : cs[i].kind = kind /\ Settled(cs[i])
AllSettled(cs, kind) == \A i \in DOMAIN cs : cs[i].kind = kind => Settled(cs[i])
AllOk(cs, kind) == \A i \in DOMAIN cs : cs[i].kind = kind => cs[i].st = "ok"

RECURSIVE SelectKind(_, _)
SelectKind(cs, kind) ==
    IF cs = <<>> THEN <<>>
    ELSE IF Head(cs).kind = kind THEN <<Head(cs)>> \o SelectKind(Tail(cs), kind)
    ELSE SelectKind(Tail(cs), kind)

\* The uploaded images taken in the order in which the uploads resolved, the
\* store handing out its public_ids in that order.
NewImages_CompletionOrder(cs, firstId) ==
    LET ups == SelectKind(cs, "upload")
        nth(k) == CHOOSE i \in DOMAIN ups :
                      Cardinality({j \in DOMAIN ups : ups[j].id < ups[i].id}) = k - 1
    IN  [k \in 1..Len(ups) |->
            [_id |-> firstId + k - 1, url |-> ups[nth(k)].id, public_id |-> ups[nth(k)].id]]

\* uploadedImages.map(image => ({url: image.secure_url, public_id: image.public_id})),
\* each given its _id when it enters the images array.
NewImages(cs, firstId) ==
    LET ups == SelectKind(cs, "upload") IN
    [i \in 1..Len(ups) |-> [_id |-> firstId + i - 1, url |-> ups[i].id, public_id |-> ups[i].id]]

ImageIds(images) == {images[i]._id : i \in DOMAIN images}

\* A lookup that falls back on the first image when no _id matches.
FindImage_OrFirst(images, imageId) ==
    LET hits == {i \in DOMAIN images : images[i]._id = imageId} IN
    IF hits # {} THEN CHOOSE i \in hits : \A j \in hits : i <= j
    ELSE IF images = <<>> THEN 0 ELSE 1

\* product.images.find(img => img._id.toString() === imageId)
FindImage(images, imageId) ==
    LET hits == {i \in DOMAIN images : images[i]._id = imageId} IN
    IF hits = {} THEN 0 ELSE CHOOSE i \in hits : \A j \in hits : i <= j

HasPublicId(img) == img.public_id # 0

\* A filter that drops the first image whatever the ids are.
RemoveImages_First(images, ids) == IF images = <<>> THEN <<>> ELSE Tail(images)

RECURSIVE RemoveImages(_, _)
\* product.images.filter(img => !ids.includes(img._id.toString()))
RemoveImages(images, ids) ==
    IF images = <<>> THEN <<>>
    ELSE IF Head(images)._id \in ids THEN RemoveImages(Tail(images), ids)
    ELSE <<Head(images)>> \o RemoveImages(Tail(images), ids)

---------------------------------------------------------------------------
\* createProduct, updateProduct, addProductRating.

\* POST /: validation, new Product(req.body), then the uploads or the save.
createProduct(s) ==
    \E token \in Tokens, body \in CreateBodies, n \in FileCounts :
        Route(s, [op |-> "createProduct", token |-> token, body |-> body, files |-> n], TRUE,
              /\ IF "price" \notin DOMAIN body \/ ~ValidPrice(body.price)
                 THEN /\ Respond(s, Response(400, "validation", NoDoc))
                      /\ UNCHANGED <<doc, calls>>
                 ELSE /\ doc' = [doc EXCEPT ![s] = NewProduct(body)]
                      /\ calls' = [calls EXCEPT ![s] = UploadCalls(n)]
                      /\ Goto(s, IF n > 0 THEN "uploading" ELSE "saving")
              /\ UNCHANGED <<db, assets, nextAsset, nextImgId, now, snap>>)

\* PUT /:id: the request is taken; findByIdAndUpdate is awaited.
updateProduct(s) ==
    \E token \in Tokens, body \in Bodies :
        Route(s, [op |-> "updateProduct", token |-> token, body |-> body], TRUE,
              /\ Goto(s, "updating")
              /\ UNCHANGED <<db, assets, nextAsset, nextImgId, now, doc, calls, snap>>)

\* The $set findByIdAndUpdate applies: the fields of the body, nothing else.
ApplyUpdate(d, body) ==
    [d EXCEPT !.price = IF "price" \in DOMAIN body THEN body.price ELSE @,
              !.discount = IF "discount" \in DOMAIN body THEN body.discount ELSE @]

ValidUpdate(body) ==
    /\ "price" \in DOMAIN body => ValidPrice(body.price)
    /\ "discount" \in DOMAIN body => ValidDiscount(body.discount)

\* Product.findByIdAndUpdate(id, req.body, {new: true, runValidators: true})
findByIdAndUpdate(s) ==
    /\ pc[s] = "updating"
    /\ IF ~db.exists
       THEN /\ Respond(s, Response(404, "Product not found", NoDoc))
            /\ UNCHANGED db
       ELSE IF ~ValidUpdate(req[s].body)
       THEN /\ Respond(s, Response(500, "validation", NoDoc))
            /\ UNCHANGED db
       ELSE /\ db' = ApplyUpdate(db, req[s].body)
            /\ Respond(s, Response(200, "", db'))
    /\ UNCHANGED <<assets, nextAsset, nextImgId, now, nreq, req, doc, calls, snap>>

\* POST /:id/ratings: validation, then findById is awaited.
addProductRating(s) ==
    \E token \in Tokens, r \in Ratings, rv \in Reviews :
        Route(s, [op |-> "addProductRating", token |-> token,
                  user |-> authenticate(token), rating |-> r, review |-> rv], FALSE,
              /\ IF ~ValidRating(r) \/ ~ValidReview(rv)
                 THEN Respond(s, Response(400, "validation", NoDoc))
                 ELSE Goto(s, "find")
              /\ UNCHANGED <<db, assets, nextAsset, nextImgId, now, doc, calls, snap>>)

\* product.ratings.findIndex(rating => rating.user.toString() === req.user._id.toString())
FindRatingIndex(rs, u) ==
    LET hits == {i \in DOMAIN rs : rs[i].user = u} IN
    IF hits = {} THEN 0 ELSE CHOOSE i \in hits : \A j \in hits : i <= j

\* The old entry removed and the new one pushed at the end.
PutRating_RemoveAndPush(rs, u, r, rv, t) ==
    Append(SelectSeq(rs, LAMBDA x : x.user # u),
           [user |-> u, rating |-> r, review |-> rv, date |-> t])

\* The push taken whether or not the user has rated.
PutRating_AlwaysPush(rs, u, r, rv, t) ==
    Append(rs, [user |-> u, rating |-> r, review |-> rv, date |-> t])

\* The branch on existingRatingIndex: replace in place, or push.
PutRating(rs, u, r, rv, t) ==
    LET i == FindRatingIndex(rs, u)
        e == [user |-> u, rating |-> r, review |-> rv, date |-> t]
    IN  IF i > 0 THEN [rs EXCEPT ![i] = e] ELSE Append(rs, e)

\* updateAverageRating without its recomputation.
updateAverageRating_Skipped(d) == d

\* updateAverageRating, up to its save().
updateAverageRating(d) == [d EXCEPT !.averageRating = AverageOf(d.ratings)]

\* addProductRating after findById: the rating is put, the average is
\* recomputed and save() is awaited.
RateProduct(s) ==
    /\ pc[s] = "find"
    /\ req[s].op = "addProductRating"
    /\ IF ~db.exists
       THEN /\ Respond(s, Response(404, "Product not found", NoDoc))
            /\ UNCHANGED doc
       ELSE /\ doc' = [doc EXCEPT ![s] = updateAverageRating(
                   [db EXCEPT !.ratings =
                       PutRating(@, req[s].user, req[s].rating, req[s].review, now)])]
            /\ Goto(s, "saving")
    /\ UNCHANGED <<db, assets, nextAsset, nextImgId, now, nreq, req, calls>>
    /\ snap' = [snap EXCEPT ![s] = db]

---------------------------------------------------------------------------
\* Persistence.

IsPrefix(a, b) == Len(a) <= Len(b) /\ \A i \in DOMAIN a : a[i] = b[i]

\* An array path after save(): what the handler pushed on the array it had
\* loaded is pushed on the stored array ($push); an array it assigned
\* (images = images.filter(...)) replaces the stored one ($set).
SaveArray(cur, loaded, mine) ==
    IF IsPrefix(loaded, mine)
    THEN cur \o SubSeq(mine, Len(loaded) + 1, Len(mine))
    ELSE mine

\* The ratings after save(): a pushed rating is pushed on the stored array;
\* ratings[i] = {...}, for i in assigned, sets position i of the stored array.
SaveRatings(cur, loaded, mine, assigned) ==
    [i \in DOMAIN cur |->
        IF /\ i \in DOMAIN mine
           /\ i \in DOMAIN loaded
           /\ i \in assigned \/ mine[i] # loaded[i]
        THEN mine[i] ELSE cur[i]]
    \o SubSeq(mine, Len(loaded) + 1, Len(mine))

\* A save() that writes the whole document of the handler over the stored one.
ApplyDelta_WholeDocument(cur, loaded, mine, assigned) == mine

\* The stored document after save() of the document `mine` that was loaded
\* as `loaded`: Mongoose writes the paths the handler has modified and
\* leaves the others as they are stored.
ApplyDelta(cur, loaded, mine, assigned) ==
    [cur EXCEPT
        !.images = SaveArray(@, loaded.images, mine.images),
        !.ratings = SaveRatings(@, loaded.ratings, mine.ratings, assigned),
        !.averageRating = IF mine.averageRating # loaded.averageRating
                          THEN mine.averageRating ELSE @,
        !.finalPrice = IF mine.finalPrice # loaded.finalPrice
                       THEN mine.finalPrice ELSE @]

\* The positions of ratings the handler in slot s has assigned to.
Assigned(s) ==
    IF req[s].op = "addProductRating"
    THEN {FindRatingIndex(snap[s].ratings, req[s].user)} \ {0}
    ELSE {}

\* product.save() succeeds: validation, the pre('save') hook, the write (an
\* insert for a new document, an update of the modified paths otherwise).
Save(s) ==
    /\ pc[s] = "saving"
    /\ LET d == PreSave(doc[s]) IN
       IF req[s].op = "createProduct" /\ db.exists
       THEN /\ Respond(s, Response(400, "Product with this SKU already exists", NoDoc))
            /\ UNCHANGED <<db, doc>>
       ELSE IF \/ ~ValidDiscount(doc[s].discount)
               \/ ~ValidRatings(doc[s].ratings)
               \/ (req[s].op # "createProduct" /\ ~db.exists)
       THEN /\ Respond(s, Response(500, "save", NoDoc))
            /\ UNCHANGED <<db, doc>>
       ELSE /\ db' = IF req[s].op = "createProduct" THEN d
                         ELSE ApplyDelta(db, snap[s], d, Assigned(s))
            /\ doc' = [doc EXCEPT ![s] = d]
            /\ Respond(s, Response(IF req[s].op = "createProduct" THEN 201 ELSE 200, "", d))
    /\ UNCHANGED <<assets, nextAsset, nextImgId, now, nreq, req, calls, snap>>

\* An awaited database call rejects; the catch block answers 500.
DbError(s) ==
    /\ pc[s] \in {"find", "updating", "saving", "removing"}
    /\ Respond(s, Response(500, "database", NoDoc))
    /\ UNCHANGED <<db, assets, nextAsset, nextImgId, now, nreq, req, doc, calls, snap>>

\* The response has been delivered; the slot is free again.
Return(s) ==
    /\ pc[s] = "done"
    /\ pc' = [pc EXCEPT ![s] = "idle"]
    /\ req' = [req EXCEPT ![s] = NoReq]
    /\ doc' = [doc EXCEPT ![s] = NoDoc]
    /\ calls' = [calls EXCEPT ![s] = <<>>]
    /\ resp' = [resp EXCEPT ![s] = NoResp]
    /\ snap' = [snap EXCEPT ![s] = NoProduct]
    /\ UNCHANGED <<db, assets, nextAsset, nextImgId, now, nreq>>

\* Time passes.  Date.now() is read only where addProductRating puts the
\* rating, so the clock is let advance only while a handler is about to read it.
Tick ==
    /\ now < MaxClock
    /\ \E s \in Slots : pc[s] = "find" /\ req[s].op = "addProductRating"
    /\ now' = now + 1
    /\ UNCHANGED <<db, assets, nextAsset, nextImgId, nreq, pc, req, doc, calls, resp, snap>>

---------------------------------------------------------------------------
\* Image handlers and deleteProduct, up to their first asset-store call.

ImageIdInputs == 1..MaxAssets

RECURSIVE WithPublicId(_)
\* The images the loops and maps issue a destroy for: if (image.public_id).
WithPublicId(images) ==
    IF images = <<>> THEN <<>>
    ELSE IF HasPublicId(Head(images)) THEN <<Head(images)>> \o WithPublicId(Tail(images))
    ELSE WithPublicId(Tail(images))

\* imagesToDelete.map(async imageId => ...): one destroy per id that names an
\* image with a public_id.
DestroyCalls(images, ids) ==
    LET named == WithPublicId(RemoveImages(images, ImageIds(images) \ ids)) IN
    [i \in 1..Len(named) |-> DestroyCall(named[i].public_id)]

\* POST /:id/images
uploadProductImages(s) ==
    \E token \in Tokens, n \in UploadFileCounts :
        Route(s, [op |-> "uploadProductImages", token |-> token, files |-> n], TRUE,
              /\ IF n = 0
                 THEN Respond(s, Response(400, "Please upload at least one image", NoDoc))
                 ELSE Goto(s, "find")
              /\ UNCHANGED <<db, assets, nextAsset, nextImgId, now, doc, calls, snap>>)

\* uploadProductImages after findById: every upload is issued at once.
UploadFind(s) ==
    /\ pc[s] = "find"
    /\ req[s].op = "uploadProductImages"
    /\ IF ~db.exists
       THEN /\ Respond(s, Response(404, "Product not found", NoDoc))
            /\ UNCHANGED <<doc, calls>>
       ELSE /\ doc' = [doc EXCEPT ![s] = db]
            /\ calls' = [calls EXCEPT ![s] = UploadCalls(req[s].files)]
            /\ Goto(s, "uploading")
    /\ UNCHANGED <<db, assets, nextAsset, nextImgId, now, nreq, req>>
    /\ snap' = [snap EXCEPT ![s] = db]

\* DELETE /:id/images/:imageId
deleteProductImage(s) ==
    \E token \in Tokens, imageId \in ImageIdInputs :
        Route(s, [op |-> "deleteProductImage", token |-> token, imageId |-> imageId], TRUE,
              /\ Goto(s, "find")
              /\ UNCHANGED <<db, assets, nextAsset, nextImgId, now, doc, calls, snap>>)

\* deleteProductImage after findById: the image is looked up and its destroy issued.
DeleteImageFind(s) ==
    /\ pc[s] = "find"
    /\ req[s].op = "deleteProductImage"
    /\ IF ~db.exists
       THEN /\ Respond(s, Response(404, "Product not found", NoDoc))
            /\ UNCHANGED <<doc, calls>>
       ELSE LET i == FindImage(db.images, req[s].imageId) IN
            IF i = 0
            THEN /\ Respond(s, Response(404, "Image not found", NoDoc))
                 /\ UNCHANGED <<doc, calls>>
            ELSE IF HasPublicId(db.images[i])
            THEN /\ doc' = [doc EXCEPT ![s] = db]
                 /\ calls' = [calls EXCEPT ![s] = <<DestroyCall(db.images[i].public_id)>>]
                 /\ Goto(s, "deleting")
            ELSE /\ doc' = [doc EXCEPT ![s] =
                        [db EXCEPT !.images = RemoveImages(@, {req[s].imageId})]]
                 /\ Goto(s, "saving")
                 /\ UNCHANGED calls
    /\ UNCHANGED <<db, assets, nextAsset, nextImgId, now, nreq, req>>
    /\ snap' = [snap EXCEPT ![s] = db]

\* PUT /:id/images
updateProductImages(s) ==
    \E token \in Tokens, ids \in SUBSET ImageIdInputs, n \in FileCounts :
        Route(s, [op |-> "updateProductImages", token |-> token,
                  imagesToDelete |-> ids, files |-> n], TRUE,
              /\ Goto(s, "find")
              /\ UNCHANGED <<db, assets, nextAsset, nextImgId, now, doc, calls, snap>>)

\* updateProductImages once the delete phase is over: the filter, then the
\* uploads are issued, or save() when there is no file.
AfterDeletes(s, d, cs) ==
    /\ doc' = [doc EXCEPT ![s] = [d EXCEPT !.images = RemoveImages(@, req[s].imagesToDelete)]]
    /\ calls' = [calls EXCEPT ![s] = cs \o UploadCalls(req[s].files)]
    /\ Goto(s, IF req[s].files > 0 THEN "uploading" ELSE "saving")

\* updateProductImages after findById: every destroy is issued at once.
UpdateImagesFind(s) ==
    /\ pc[s] = "find"
    /\ req[s].op = "updateProductImages"
    /\ IF ~db.exists
       THEN /\ Respond(s, Response(404, "Product not found", NoDoc))
            /\ UNCHANGED <<doc, calls>>
       ELSE LET cs == DestroyCalls(db.images, req[s].imagesToDelete) IN
            IF cs = <<>>
            THEN AfterDeletes(s, db, cs)
            ELSE /\ doc' = [doc EXCEPT ![s] = db]
                 /\ calls' = [calls EXCEPT ![s] = cs]
                 /\ Goto(s, "deleting")
    /\ UNCHANGED <<db, assets, nextAsset, nextImgId, now, nreq, req>>
    /\ snap' = [snap EXCEPT ![s] = db]

\* DELETE /:id
deleteProduct(s) ==
    \E token \in Tokens :
        Route(s, [op |-> "deleteProduct", token |-> token], TRUE,
              /\ Goto(s, "find")
              /\ UNCHANGED <<db, assets, nextAsset, nextImgId, now, doc, calls, snap>>)

\* The for loop of deleteProduct with k destroys behind it: the next destroy
\* is awaited, or deleteOne() is.
CascadeNext(s, d, cs) ==
    LET todo == WithPublicId(d.images)
        k == Len(cs)
    IN  IF k < Len(todo)
        THEN /\ calls' = [calls EXCEPT ![s] = Append(cs, DestroyCall(todo[k + 1].public_id))]
             /\ Goto(s, "cascade")
        ELSE /\ calls' = [calls EXCEPT ![s] = cs]
             /\ Goto(s, "removing")

\* deleteProduct after findById.
DeleteProductFind(s) ==
    /\ pc[s] = "find"
    /\ req[s].op = "deleteProduct"
    /\ IF ~db.exists
       THEN /\ Respond(s, Response(404, "Product not found", NoDoc))
            /\ UNCHANGED <<doc, calls>>
       ELSE /\ doc' = [doc EXCEPT ![s] = db]
            /\ CascadeNext(s, db, <<>>)
    /\ UNCHANGED <<db, assets, nextAsset, nextImgId, now, nreq, req>>
    /\ snap' = [snap EXCEPT ![s] = db]

\* product.deleteOne()
DeleteOne(s) ==
    /\ pc[s] = "removing"
    /\ db' = NoProduct
    /\ Respond(s, Response(200, "Product deleted successfully", NoDoc))
    /\ UNCHANGED <<assets, nextAsset, nextImgId, now, nreq, req, doc, calls, snap>>

---------------------------------------------------------------------------
\* The asset store answers.

Pending(s, i, kind) ==
    /\ i \in DOMAIN calls[s]
    /\ calls[s][i].kind = kind
    /\ calls[s][i].st = "pending"

\* cloudinary.uploader.destroy resolves: {result: 'ok'}, or {result: 'not found'}
\* for an id the store does not hold.
DestroyResult(publicId) == IF publicId \in assets THEN "ok" ELSE "not found"

\* What the handler awaiting a destroy does once it has resolved, cs being
\* its calls by then: deleteProductImage filters and saves, updateProductImages
\* waits for the other destroys, deleteProduct goes round its loop.  A handler
\* that has answered already does nothing.
AfterDestroy(s, cs) ==
    IF pc[s] = "deleting" /\ req[s].op = "deleteProductImage"
    THEN /\ doc' = [doc EXCEPT ![s].images = RemoveImages(@, {req[s].imageId})]
         /\ calls' = [calls EXCEPT ![s] = cs]
         /\ Goto(s, "saving")
    ELSE IF pc[s] = "deleting" /\ AllSettled(cs, "destroy")
    THEN AfterDeletes(s, doc[s], cs)
    ELSE IF pc[s] = "cascade"
    THEN /\ CascadeNext(s, doc[s], cs)
         /\ UNCHANGED doc
    ELSE /\ calls' = [calls EXCEPT ![s] = cs]
         /\ UNCHANGED <<pc, resp, doc>>

\* A destroy that answers 'not found' taken for a failure.
DestroyDone_NotFoundThrows(s, i) ==
    /\ Pending(s, i, "destroy")
    /\ LET id == calls[s][i].id
           cs == [calls[s] EXCEPT ![i].st = DestroyResult(id)]
       IN  /\ assets' = assets \ {id}
           /\ IF DestroyResult(id) = "not found" /\ pc[s] \in {"deleting", "cascade"}
              THEN /\ calls' = [calls EXCEPT ![s] = cs]
                   /\ Respond(s, Response(500, "destroy", NoDoc))
                   /\ UNCHANGED doc
              ELSE AfterDestroy(s, cs)
    /\ UNCHANGED <<db, nextAsset, nextImgId, now, nreq, req, snap>>

\* A destroy resolves, and the handler awaiting it goes on.
DestroyDone(s, i) ==
    /\ Pending(s, i, "destroy")
    /\ LET id == calls[s][i].id
           cs == [calls[s] EXCEPT ![i].st = DestroyResult(id)]
       IN  /\ assets' = assets \ {id}
           /\ AfterDestroy(s, cs)
    /\ UNCHANGED <<db, nextAsset, nextImgId, now, nreq, req, snap>>

\* A rejected destroy swallowed: the handler goes on as if it had resolved.
DestroyFail_Swallowed(s, i) ==
    /\ Pending(s, i, "destroy")
    /\ AfterDestroy(s, [calls[s] EXCEPT ![i].st = "failed"])
    /\ UNCHANGED <<db, assets, nextAsset, nextImgId, now, nreq, req, snap>>

\* A destroy rejects: deleteFromCloudinary rethrows, and an awaiting handler
\* lands in its catch block.
DestroyFail(s, i) ==
    /\ Pending(s, i, "destroy")
    /\ calls' = [calls EXCEPT ![s][i].st = "failed"]
    /\ IF pc[s] \in {"deleting", "cascade"}
       THEN Respond(s, Response(500, "destroy", NoDoc))
       ELSE UNCHANGED <<pc, resp>>
    /\ UNCHANGED <<db, assets, nextAsset, nextImgId, now, nreq, req, doc, snap>>

\* The images of the uploads that resolved.
OkImages(cs, firstId) ==
    LET ups == SelectKind(cs, "upload")
        ok == {i \in DOMAIN ups : ups[i].st = "ok"}
        nth(k) == CHOOSE i \in ok : Cardinality({j \in ok : j < i}) = k - 1
    IN  [k \in 1..Cardinality(ok) |->
            [_id |-> firstId + k - 1, url |-> ups[nth(k)].id, public_id |-> ups[nth(k)].id]]

\* A rejected upload swallowed: once every upload has settled the images of
\* those that resolved are appended and saved.
UploadFail_Swallowed(s, i) ==
    /\ Pending(s, i, "upload")
    /\ LET cs == [calls[s] EXCEPT ![i].st = "failed"]
           new == OkImages(cs, nextImgId)
       IN  /\ calls' = [calls EXCEPT ![s] = cs]
           /\ IF pc[s] = "uploading" /\ AllSettled(cs, "upload")
              THEN /\ doc' = [doc EXCEPT ![s].images = @ \o new]
                   /\ nextImgId' = nextImgId + Len(new)
                   /\ Goto(s, "saving")
              ELSE UNCHANGED <<pc, resp, doc, nextImgId>>
    /\ UNCHANGED <<db, assets, nextAsset, now, nreq, req, snap>>

\* An upload resolves with a new public_id; when it was the last one the
\* handler waited for, the new images enter the document and save() is awaited.
UploadOk(s, i) ==
    /\ Pending(s, i, "upload")
    /\ nextAsset <= MaxAssets
    /\ assets' = assets \cup {nextAsset}
    /\ nextAsset' = nextAsset + 1
    /\ LET cs == [calls[s] EXCEPT ![i].st = "ok", ![i].id = nextAsset]
           new == NewImages(cs, nextImgId)
       IN  /\ calls' = [calls EXCEPT ![s] = cs]
           /\ IF pc[s] = "uploading" /\ AllOk(cs, "upload")
              THEN /\ doc' = [doc EXCEPT ![s].images =
                          IF req[s].op = "createProduct" THEN new ELSE @ \o new]
                   /\ nextImgId' = nextImgId + Len(new)
                   /\ Goto(s, "saving")
              ELSE UNCHANGED <<pc, resp, doc, nextImgId>>
    /\ UNCHANGED <<db, now, nreq, req, snap>>

\* An upload rejects: Promise.all rejects at once and the catch block answers.
UploadFail(s, i) ==
    /\ Pending(s, i, "upload")
    /\ calls' = [calls EXCEPT ![s][i].st = "failed"]
    /\ IF pc[s] = "uploading"
       THEN Respond(s, Response(500, "upload", NoDoc))
       ELSE UNCHANGED <<pc, resp>>
    /\ UNCHANGED <<db, assets, nextAsset, nextImgId, now, nreq, req, doc, snap>>

---------------------------------------------------------------------------
\* The system.

\* A product as createProduct({price: 100}) followed by one addProductRating
\* leaves it in the database.
SeedProduct ==
    PreSave(updateAverageRating(
        [PreSave(NewProduct([price |-> 100])) EXCEPT !.ratings =
            PutRating(@, "u2", 5, NoReview, 0)]))

\* The server starts on an empty catalog or on one that holds the product.
Init ==
    /\ db \in {NoProduct, SeedProduct}
    /\ assets = {}
    /\ nextAsset = 1
    /\ nextImgId = 1
    /\ now = 0
    /\ nreq = 0
    /\ pc = [s \in Slots |-> "idle"]
    /\ req = [s \in Slots |-> NoReq]
    /\ doc = [s \in Slots |-> NoDoc]
    /\ calls = [s \in Slots |-> <<>>]
    /\ resp = [s \in Slots |-> NoResp]
    /\ snap = [s \in Slots |-> NoProduct]

\* A handler, the database or the asset store takes a step.
Step(s) ==
    \/ findByIdAndUpdate(s)
    \/ RateProduct(s)
    \/ UploadFind(s)
    \/ DeleteImageFind(s)
    \/ UpdateImagesFind(s)
    \/ DeleteProductFind(s)
    \/ DeleteOne(s)
    \/ Save(s)
    \/ DbError(s)
    \/ Return(s)
    \/ \E i \in DOMAIN calls[s] : DestroyDone(s, i)
    \/ \E i \in DOMAIN calls[s] : DestroyFail(s, i)
    \/ \E i \in DOMAIN calls[s] : UploadOk(s, i)
    \/ \E i \in DOMAIN calls[s] : UploadFail(s, i)

\* Mutations of the product never overlap: a request is taken only when no
\* other is being handled.
Next ==
    \/ \E s \in Slots : Serial /\ createProduct(s)
    \/ \E s \in Slots : Serial /\ updateProduct(s)
    \/ \E s \in Slots : Serial /\ addProductRating(s)
    \/ \E s \in Slots : Serial /\ uploadProductImages(s)
    \/ \E s \in Slots : Serial /\ deleteProductImage(s)
    \/ \E s \in Slots : Serial /\ updateProductImages(s)
    \/ \E s \in Slots : Serial /\ deleteProduct(s)
    \/ \E s \in Slots : Step(s)
    \/ Tick

Spec == Init /\ [][Next]_vars

\* The steps of addProductRating and uploadProductImages.
ConcStep(s) ==
    \/ RateProduct(s)
    \/ UploadFind(s)
    \/ Save(s)
    \/ DbError(s)
    \/ Return(s)
    \/ \E i \in DOMAIN calls[s] : UploadOk(s, i)
    \/ \E i \in DOMAIN calls[s] : UploadFail(s, i)

\* addProductRating and uploadProductImages as the server runs them: a
\* request is taken whenever it arrives, while another is being handled.
NextConc ==
    \/ \E s \in Slots : nreq < MaxOverlap /\ addProductRating(s) /\ pc'[s] = "find"
    \/ \E s \in Slots : nreq < MaxOverlap /\ uploadProductImages(s) /\ pc'[s] = "find"
    \/ \E s \in Slots : ConcStep(s)
    \/ Tick

SpecConc == Init /\ [][NextConc]_vars

---------------------------------------------------------------------------
\* Properties of the product aggregate.

Done(s, op) == pc[s] = "done" /\ req[s].op = op
Succeeded(s, op) == Done(s, op) /\ resp[s].status = 200

\* C1: the persisted finalPrice is price - price * (discount / 100) when
\* discount > 0 and price otherwise, after every operation, updateProduct
\* included.
C1_FinalPriceFollowsPriceAndDiscount ==
    db.exists =>
        db.finalPrice = IF db.discount > 0
                        THEN db.price - ((db.price * db.discount) \div 100)
                        ELSE db.price

C3_OneRatingPerRater ==
    /\ db.exists =>
           \A i, j \in DOMAIN db.ratings :
               db.ratings[i].user = db.ratings[j].user => i = j
    /\ \A s \in Slots :
           /\ Succeeded(s, "addProductRating")
           /\ \E i \in DOMAIN snap[s].ratings : snap[s].ratings[i].user = req[s].user
           => Len(db.ratings) = Len(snap[s].ratings)

\* A rater who had an entry has rated again, with another score, and the
\* product was saved.
C3_Witness ==
    \E s \in Slots :
        /\ Succeeded(s, "addProductRating")
        /\ \E i \in DOMAIN snap[s].ratings :
               /\ snap[s].ratings[i].user = req[s].user
               /\ snap[s].ratings[i].rating # req[s].rating

HasCall(s, kind, st) ==
    \E i \in DOMAIN calls[s] : calls[s][i].kind = kind /\ calls[s][i].st = st

\* The public_ids of the destroys of slot s that ended in st.
Destroyed(s, st) ==
    {calls[s][i].id : i \in {k \in DOMAIN calls[s] :
                                calls[s][k].kind = "destroy" /\ calls[s][k].st = st}}

PublicIds(images) == {images[i].public_id : i \in DOMAIN images}

\* C4: when a destroy of updateProductImages has failed and the others have
\* succeeded, the handler still answers 200 having saved the product: the
\* images destroyed are gone, the one whose destroy failed is still there,
\* and the response names the failed deletion.
C4_ReplaceImagesGoesOnAfterFailedDelete ==
    \A s \in Slots :
        /\ Done(s, "updateProductImages")
        /\ HasCall(s, "destroy", "failed")
        /\ HasCall(s, "destroy", "ok")
        /\ ~HasCall(s, "destroy", "pending")
        /\ ~HasCall(s, "upload", "failed")
        => /\ resp[s].status = 200
           /\ Destroyed(s, "ok") \cap PublicIds(db.images) = {}
           /\ Destroyed(s, "failed") \subseteq PublicIds(db.images)
           /\ "failedDeletions" \in DOMAIN resp[s]
           /\ resp[s].failedDeletions = Destroyed(s, "failed")

\* C5: when a destroy of deleteProduct has failed, the product record is
\* removed all the same.
C5_CascadeRemovesRecordDespiteFailedDelete ==
    \A s \in Slots :
        Done(s, "deleteProduct") /\ HasCall(s, "destroy", "failed") => ~db.exists

\* C6: once an upload of uploadProductImages has failed, the handler has
\* answered 500 and the persisted product, its images included, is what
\* findById returned: nothing was appended and nothing was written.
C6_FailedUploadPersistsNothing ==
    \A s \in Slots :
        req[s].op = "uploadProductImages" /\ HasCall(s, "upload", "failed")
        => /\ pc[s] = "done"
           /\ resp[s].status = 500
           /\ db = snap[s]

\* One upload of the request failed after another had succeeded.
C6_Witness ==
    \E s \in Slots :
        /\ Done(s, "uploadProductImages")
        /\ HasCall(s, "upload", "failed")
        /\ HasCall(s, "upload", "ok")

\* C7: once the destroy of deleteProductImage has failed, the handler has
\* answered 500 and the persisted product is what findById returned, with the
\* image entry of the request still in it.
C7_FailedDestroyKeepsImage ==
    \A s \in Slots :
        req[s].op = "deleteProductImage" /\ HasCall(s, "destroy", "failed")
        => /\ pc[s] = "done"
           /\ resp[s].status = 500
           /\ db = snap[s]
           /\ FindImage(db.images, req[s].imageId) > 0

\* The destroy of a deleteProductImage request failed.
C7_Witness ==
    \E s \in Slots :
        Done(s, "deleteProductImage") /\ HasCall(s, "destroy", "failed")

\* C8: when the destroy of deleteProductImage answers 'not found' the handler
\* goes on to save the product without the image entry, and once that save
\* has been written it has answered 200 and the entry is gone from the
\* persisted images.  (Only a rejected database call still answers 500.)
C8_NotFoundDestroyStillRemovesImage ==
    \A s \in Slots :
        req[s].op = "deleteProductImage" /\ HasCall(s, "destroy", "not found")
        => /\ pc[s] \in {"saving", "done"}
           /\ pc[s] = "saving" => doc[s].images = RemoveImages(snap[s].images, {req[s].imageId})
           /\ pc[s] = "done" =>
                  \/ /\ resp[s].status = 200
                     /\ db.images = RemoveImages(snap[s].images, {req[s].imageId})
                     /\ FindImage(db.images, req[s].imageId) = 0
                  \/ resp[s].error = "database"

\* A deleteProductImage whose destroy answered 'not found' has succeeded.
C8_Witness ==
    \E s \in Slots :
        /\ Succeeded(s, "deleteProductImage")
        /\ HasCall(s, "destroy", "not found")
        /\ FindImage(snap[s].images, req[s].imageId) > 0

\* C10: the response to an uploadProductImages that failed on an upload
\* tells, file by file, whether its upload succeeded.
C10_UploadFailureReportsEachFile ==
    \A s \in Slots :
        Done(s, "uploadProductImages") /\ resp[s].error = "upload"
        => /\ "uploads" \in DOMAIN resp[s]
           /\ resp[s].uploads = [i \in DOMAIN calls[s] |-> calls[s][i].st]

\* C9: a successful addProductRating by a rater who had an entry puts the new
\* score, review and the time of the call in the place of that entry and
\* leaves the other entries and their order as they were; by a rater without
\* an entry it adds one entry, stamped with the time of the call, after the
\* existing ones, which stay as they were.
C9_RatingReplacedInPlaceOrAppended ==
    \A s \in Slots :
        Succeeded(s, "addProductRating") =>
            LET old == snap[s].ratings
                new == db.ratings
                e == [user |-> req[s].user, rating |-> req[s].rating,
                      review |-> req[s].review, date |-> now]
            IN  IF \E i \in DOMAIN old : old[i].user = req[s].user
                THEN /\ Len(new) = Len(old)
                     /\ \A j \in DOMAIN old :
                            new[j] = IF old[j].user = req[s].user THEN e ELSE old[j]
                ELSE /\ Len(new) = Len(old) + 1
                     /\ \A j \in DOMAIN old : new[j] = old[j]
                     /\ new[Len(new)] = e

\* A rater has replaced the first of two entries: score, review and
\* timestamp all differ from the ones replaced.
C9_Witness ==
    \E s \in Slots :
        /\ Succeeded(s, "addProductRating")
        /\ Len(snap[s].ratings) = 2
        /\ snap[s].ratings[1].user = req[s].user
        /\ snap[s].ratings[1].rating # req[s].rating
        /\ snap[s].ratings[1].review # req[s].review
        /\ snap[s].ratings[1].date < db.ratings[1].date

\* A rater without an entry has rated a product that had a rating.
C9_WitnessAppend ==
    \E s \in Slots :
        /\ Succeeded(s, "addProductRating")
        /\ Len(snap[s].ratings) = 1
        /\ Len(db.ratings) = 2

\* C11: uploadProductImages and updateProductImages respond only once every
\* upload and destroy call they have issued has settled: no call of the
\* request is still pending when its response has been sent.
C11_RespondsOnlyAfterEveryCallSettled ==
    \A s \in Slots :
        Done(s, "uploadProductImages") \/ Done(s, "updateProductImages")
        => /\ ~HasCall(s, "upload", "pending")
           /\ ~HasCall(s, "destroy", "pending")

\* C12: an addProductRating request of an authenticated user whose score is
\* outside [1,5] is answered 400 with the validation errors as soon as it
\* is handled, and no step taken while that request is in its slot changes
\* the persisted product: ratings and averageRating stay as they were.
C12_InvalidScoreRejectedProductUnchanged ==
    [][\A s \in Slots :
           /\ req'[s].op = "addProductRating"
           /\ req'[s].token \in {"t1", "t2"}
           /\ ~(req'[s].rating \in 1..5)
           => /\ pc'[s] = "done"
              /\ resp'[s].status = 400
              /\ resp'[s].error = "validation"
              /\ db' = db]_vars

\* A rating of 6 for a product that has a rating has been rejected.
C12_Witness ==
    \E s \in Slots :
        /\ Done(s, "addProductRating")
        /\ resp[s].status = 400
        /\ req[s].rating = 6
        /\ db.exists
        /\ Len(db.ratings) > 0

\* The handlers that begin with Product.findById(req.params.id).
FindByIdOps ==
    {"addProductRating", "uploadProductImages", "deleteProductImage",
     "updateProductImages", "deleteProduct"}

\* The target of the request in slot s is not in the database: no product,
\* or, for deleteProductImage, no image with the _id of the request.
Unresolved(s) ==
    \/ ~db.exists
    \/ /\ req[s].op = "deleteProductImage"
       /\ req[s].imageId \notin ImageIds(db.images)

C15_UploadedImagesAppendedInFileOrder ==
    \A s \in Slots :
        /\ Succeeded(s, "uploadProductImages") =>
               LET old == snap[s].images
                   new == db.images
               IN  /\ Len(new) = Len(old) + req[s].files
                   /\ \A j \in DOMAIN old : new[j] = old[j]
                   /\ \A i \in 1..req[s].files :
                          /\ calls[s][i].st = "ok"
                          /\ new[Len(old) + i].public_id = calls[s][i].id
                          /\ new[Len(old) + i].url = calls[s][i].id
        /\ req[s].op = "uploadProductImages" /\ pc[s] \in {"uploading", "saving"}
               => db = snap[s]

\* Two files were uploaded and the upload of the second resolved first (the
\* store numbers its assets in the order in which it creates them).
C15_Witness ==
    \E s \in Slots :
        /\ Succeeded(s, "uploadProductImages")
        /\ req[s].files = 2
        /\ calls[s][2].id < calls[s][1].id

\* The calls of the given kind that slot s has issued.
CallsOf(s, kind) == {i \in DOMAIN calls[s] : calls[s][i].kind = kind}

\* C16: in updateProductImages, once an upload has been issued, a destroy
\* call has been issued for every image named in imagesToDelete that has a
\* public_id, and every one of these destroy calls has resolved.
C16_DeletePhaseBeforeUploadPhase ==
    \A s \in Slots :
        req[s].op = "updateProductImages" /\ CallsOf(s, "upload") # {}
        => /\ \A i \in CallsOf(s, "destroy") :
                  /\ calls[s][i].st \in {"ok", "not found"}
                  /\ \A j \in CallsOf(s, "upload") : i < j
           /\ {calls[s][i].id : i \in CallsOf(s, "destroy")} =
                  {snap[s].images[k].public_id :
                       k \in {n \in DOMAIN snap[s].images :
                                 /\ snap[s].images[n]._id \in req[s].imagesToDelete
                                 /\ snap[s].images[n].public_id # 0}}

\* updateProductImages has destroyed two images and issued an upload.
C16_Witness ==
    \E s \in Slots :
        /\ req[s].op = "updateProductImages"
        /\ Cardinality(CallsOf(s, "destroy")) = 2
        /\ CallsOf(s, "upload") # {}

\* C17: once deleteProduct has found the product and answered, a destroy
\* call has been issued for every image of the product that has a
\* public_id; in particular every one of them was issued before the record
\* was removed.
C17_CascadeAttemptsEveryImage ==
    \A s \in Slots :
        Done(s, "deleteProduct") /\ snap[s].exists
        => PublicIds(WithPublicId(snap[s].images)) =
               {calls[s][i].id : i \in CallsOf(s, "destroy")}

\* No handler is at work and no asset-store call is in flight.
Quiescent ==
    \A s \in Slots :
        /\ pc[s] \in {"idle", "done"}
        /\ \A i \in DOMAIN calls[s] : Settled(calls[s][i])

\* C18: whenever every handler has answered and every asset-store call has
\* settled, every image of the persisted product that has a public_id names
\* an asset the asset store holds.
C18_NoDanglingImage ==
    Quiescent /\ db.exists => PublicIds(WithPublicId(db.images)) \subseteq assets

\* C19: when deleteProductImage has succeeded, the persisted images are the
\* images the product had when it was loaded without the one entry whose
\* _id is the imageId of the request, the others in the order they had, and
\* ratings, averageRating, price and discount are as they were loaded.
C19_DeleteImageRemovesOnlyThatImage ==
    \A s \in Slots :
        Succeeded(s, "deleteProductImage") =>
            LET old == snap[s].images
                new == db.images
            IN  /\ Len(new) = Len(old) - 1
                /\ \E k \in DOMAIN old :
                       /\ old[k]._id = req[s].imageId
                       /\ \A j \in DOMAIN new :
                              new[j] = IF j < k THEN old[j] ELSE old[j + 1]
                /\ db.ratings = snap[s].ratings
                /\ db.averageRating = snap[s].averageRating
                /\ db.price = snap[s].price
                /\ db.discount = snap[s].discount

\* The second of two images of a rated product has been deleted.
C19_Witness ==
    \E s \in Slots :
        /\ Succeeded(s, "deleteProductImage")
        /\ Len(snap[s].images) = 2
        /\ snap[s].images[2]._id = req[s].imageId
        /\ Len(db.ratings) > 0

\* The routes that name authorizeAdmin after authenticate.
AdminOps ==
    {"createProduct", "updateProduct", "deleteProduct", "uploadProductImages",
     "deleteProductImage", "updateProductImages"}

\* The token is one that verifies and that its user still holds.
TokenHeld(token) ==
    \E u \in Users : token \in UserStore[u].tokens /\ Verify(token) = u

\* The holder of the token is an administrator.
AdminToken(token) ==
    \E u \in Users : token \in UserStore[u].tokens /\ UserStore[u].role = "admin"

\* The middleware has answered the request in slot s.
Turned(s, status) ==
    /\ pc[s] = "done"
    /\ resp[s].status = status
    /\ doc[s] = NoDoc
    /\ calls[s] = <<>>
    /\ ~snap[s].exists

\* C20: after every step, a request in a slot whose token does not verify
\* or is not held by its user has been answered 401, a request of a
\* createProduct, updateProduct, deleteProduct or image route whose token is
\* held by a user who is no administrator has been answered 403, and every
\* other request has gone to its handler; a request answered 401 or 403 has
\* loaded no document and issued no call, and neither the step that takes it
\* nor any step while it is in its slot changes the persisted product or the
\* asset store.
C20_HandlersRunOnlyBehindTheirMiddleware ==
    [][\A s \in Slots :
           req'[s].op # "none" =>
               IF ~TokenHeld(req'[s].token)
               THEN Turned(s, 401)' /\ db' = db /\ assets' = assets
               ELSE IF req'[s].op \in AdminOps /\ ~AdminToken(req'[s].token)
               THEN Turned(s, 403)' /\ db' = db /\ assets' = assets
               ELSE pc'[s] = "done" => resp'[s].status \notin {401, 403}]_vars

\* A user who is no administrator has asked for the product to be deleted
\* and has been answered 403; the product and its image are still there.
C20_Witness ==
    \E s \in Slots :
        /\ Done(s, "deleteProduct")
        /\ req[s].token = "t1"
        /\ resp[s].status = 403
        /\ db.exists
        /\ db.images # <<>>

\* The step in which the save() of the handler in slot s succeeds.
SaveSucceeds(s) ==
    /\ req[s].op \in {"addProductRating", "uploadProductImages"}
    /\ pc[s] = "saving"
    /\ pc'[s] = "done"
    /\ resp'[s].status = 200

====
